---- MODULE Spec2Model ----
(***************************************************************************)
(* Model of the channel of src/src/channels.c: a circular buffer guarded   *)
(* by one mutex and two condition variables, used by several threads that  *)
(* call channel_send, channel_recv and channel_close.                      *)
(*                                                                         *)
(* One item of item_size bytes is one value of the model: the code only    *)
(* ever copies whole items with memcpy and never looks inside them.        *)
(***************************************************************************)
EXTENDS Integers, Sequences, FiniteSets

\* ------------------------------------------------------------ bounds ----

\* Number of threads using a bounded channel.
NumThreads == 3

\* Total number of calls the threads make in one run on a bounded channel.
MaxCalls == 5

\* The threads and calls of the runs that make an unbounded channel grow.
NumGrowThreads == 1

MaxGrowCalls == 19

\* The capacities given to channel_create are 0..MaxCap (0: unbounded).
MaxCap == 2

\* The item size given to channel_create (sizeof(int) in the tests).
ItemSize == 4

\* The number of items each producer thread sends.
ItemsEach == 2

\* The fill-and-drain test: the capacities it is run with are 1..MaxWrapCap,
\* and it makes MaxRounds rounds.
MaxWrapCap == 5

MaxRounds == 3

\* -------------------------------------------------- program constants ----

CH_CLOSED == 1

CH_BOUNDED == 2

\* The initial capacity of an unbounded channel, 1 << 4.
DefaultCapacity == 16

\* ----------------------------------------------------------- helpers ----

Threads == 1..NumThreads

\* The main thread of a test: it creates the channel and the other threads,
\* and closes the channel.
Main == NumThreads + 1

AllThreads == Threads \cup {Main}

\* No thread: the value of mu when the mutex is free.
NoThread == 0

\* The content of a slot calloc zeroed and nobody wrote.
Zeroed == 0

\* The content of a slot of malloc'ed memory nobody wrote.
Uninit == 0 - 1

\* flags & bit, as a truth value (bit is a power of two).
HasFlag(f, bit) == (f \div bit) % 2 = 1

\* flags | bit
SetFlag(f, bit) == IF HasFlag(f, bit) THEN f ELSE f + bit

VARIABLES
  item_size,   \* ch->item_size
  count,       \* ch->count
  capacity,    \* ch->capacity
  recv_ptr,    \* ch->recv_ptr
  send_ptr,    \* ch->send_ptr
  flags,       \* ch->flags
  queue,       \* ch->queue: slot index -> item
  mu,          \* ch->mu: the thread holding the mutex, or NoThread
  send_cond,   \* the threads blocked in pthread_cond_wait(&ch->send_cond)
  recv_cond,   \* the threads blocked in pthread_cond_wait(&ch->recv_cond)
  pc,          \* where each thread is
  arg,         \* the item of each thread's channel_send in progress
  ret,         \* the result of each thread's last completed call
  waited,      \* history: the thread's current or last call has blocked in
               \* pthread_cond_wait
  out,         \* each thread's *value of its last channel_recv, 0 before it
  sent,        \* history: the items of the sends that succeeded, in order
  received,    \* history: the items of the recvs that succeeded, in order
  ncalls,      \* history: the number of calls made so far
  nsends,      \* history: the number of channel_send calls made so far
  malloc_failed, \* history: malloc returned NULL in the last channel_send
  recvd_at_close, \* history: the number of items received before the close
  handle,      \* what channel_create gave its caller: "ch", a channel; "NULL";
               \* "none", the call never returned (the process was killed)
  wild_write,  \* channel_create stored through a pointer to no object
  cap_arg,     \* history: the capacity given to channel_create
  alloc_failed, \* history: the allocation of channel_create that failed,
               \* "malloc" (the structure), "calloc" (the buffer) or "no"
  progress     \* the loop counter of each thread function of the tests: i of
               \* producer_thread, received of consumer_thread

chan == <<item_size, count, capacity, recv_ptr, send_ptr, flags, queue>>

vars == <<item_size, count, capacity, recv_ptr, send_ptr, flags, queue, mu,
          send_cond, recv_cond, pc, arg, ret, waited, out, sent, received,
          ncalls, nsends, malloc_failed, recvd_at_close, handle,
          wild_write, alloc_failed, progress, cap_arg>>

\* The outcome of channel_create; no later call changes it.
made == <<handle, wild_write, alloc_failed, cap_arg>>

\* The threads' own variables, and the history of the run.
thread == <<arg, ret, waited, out>>

hist == <<sent, received, ncalls, nsends, malloc_failed, recvd_at_close>>

closed == HasFlag(flags, CH_CLOSED)

bounded == HasFlag(flags, CH_BOUNDED)

\* --------------------------------------------------------- channel_create

\* Mutant of channel_create: the mode is bounded when capacity > 1.
channel_create_from_two(isz, cap) ==
  LET c == IF cap = 0 THEN DefaultCapacity ELSE cap IN
  [ item_size |-> isz,
    capacity  |-> c,
    flags     |-> IF cap > 1 THEN CH_BOUNDED ELSE 0,
    count     |-> 0,
    recv_ptr  |-> 0,
    send_ptr  |-> 0,
    queue     |-> [i \in 0..(c - 1) |-> Zeroed] ]

channel_create(isz, cap) ==
  LET c == IF cap = 0 THEN DefaultCapacity ELSE cap IN
  [ item_size |-> isz,
    capacity  |-> c,
    flags     |-> IF cap > 0 THEN CH_BOUNDED ELSE 0,
    count     |-> 0,
    recv_ptr  |-> 0,
    send_ptr  |-> 0,
    queue     |-> [i \in 0..(c - 1) |-> Zeroed] ]

InitChannel(cap) ==
  LET ch == channel_create(ItemSize, cap) IN
  /\ item_size = ch.item_size
  /\ count = ch.count
  /\ capacity = ch.capacity
  /\ recv_ptr = ch.recv_ptr
  /\ send_ptr = ch.send_ptr
  /\ flags = ch.flags
  /\ queue = ch.queue
  /\ mu = NoThread
  /\ send_cond = {}
  /\ recv_cond = {}
  /\ cap_arg = cap

InitThreads ==
  /\ pc = [t \in AllThreads |-> "idle"]
  /\ arg = [t \in AllThreads |-> 0]
  /\ ret = [t \in AllThreads |-> FALSE]
  /\ waited = [t \in AllThreads |-> FALSE]
  /\ out = [t \in AllThreads |-> 0]
  /\ progress = [t \in AllThreads |-> 0]
  /\ sent = <<>>
  /\ received = <<>>
  /\ ncalls = 0
  /\ nsends = 0
  /\ malloc_failed = FALSE
  /\ recvd_at_close = 0

\* What channel_create gives its caller, and whether it stored through a
\* null pointer on the way. The result of malloc is not tested, so when it is
\* NULL the stores of lines 53-58 go through a null pointer: the process is
\* killed there, or, where address 0 can be written, the stores land in
\* memory that is no channel and the null pointer is returned at the end.
CreateOutcomes(malloc_ok, calloc_ok) ==
  IF ~malloc_ok
    THEN {[handle |-> "none", wild_write |-> FALSE],
          [handle |-> "NULL", wild_write |-> TRUE]}
    ELSE IF ~calloc_ok
      THEN {[handle |-> "NULL", wild_write |-> FALSE]}
      ELSE {[handle |-> "ch", wild_write |-> FALSE]}

\* The first allocation of channel_create that failed.
FailedAlloc(malloc_ok, calloc_ok) ==
  IF ~malloc_ok THEN "malloc" ELSE IF ~calloc_ok THEN "calloc" ELSE "no"

\* The state channel_create(ItemSize, cap) leaves. Without a channel the
\* fields of the channel are never read: no call is made on it.
Init ==
  /\ \E cap \in 0..MaxCap : InitChannel(cap)
  /\ InitThreads
  /\ \E malloc_ok, calloc_ok \in BOOLEAN :
       /\ alloc_failed = FailedAlloc(malloc_ok, calloc_ok)
       /\ \E o \in CreateOutcomes(malloc_ok, calloc_ok) :
            /\ handle = o.handle
            /\ wild_write = o.wild_write


\* ------------------------------------------------- condition variables ----

\* pthread_cond_signal: the sets of threads it may take out of the wait set
\* ws. It unblocks one waiting thread when there is one.
cond_signal(ws) == IF ws = {} THEN {{}} ELSE {{w} : w \in ws}

\* pthread_cond_broadcast: every waiting thread is unblocked.
cond_broadcast(ws) == ws

\* The threads' positions after thread t moved to position p, the senders in
\* ws left the wait set of send_cond and the receivers in wr that of
\* recv_cond. A woken thread still has to take the mutex again before its
\* pthread_cond_wait returns.
Moved(t, p, ws, wr) ==
  [u \in AllThreads |-> IF u = t THEN p
                     ELSE IF u \in ws THEN "s_wake"
                     ELSE IF u \in wr THEN "r_wake"
                     ELSE pc[u]]

\* -------------------------------------------------------------- the mutex

\* Mutant of mutex_lock: the lock does not wait for the mutex to be free.
mutex_lock_no_wait(t, from, to) ==
  /\ pc[t] \in from
  /\ mu' = t
  /\ pc' = [pc EXCEPT ![t] = to]

\* pthread_mutex_lock by a thread at one of the positions from, which goes on
\* at position to: the first statement of a call, and the re-locking that
\* ends pthread_cond_wait. A thread that finds the mutex taken has no effect
\* on the others until it gets it, so a call begins with the step that takes
\* it.
mutex_lock(t, from, to) ==
  /\ pc[t] \in from
  /\ mu = NoThread
  /\ mu' = t
  /\ pc' = [pc EXCEPT ![t] = to]

\* The positions of a thread that is in no call: it never made one, or its
\* last one returned.
NotInCall == {"idle", "s_done", "r_done", "c_done"}

\* ---------------------------------------------------------- channel_send

\* A thread calls channel_send and takes the mutex. The item passed is the
\* number of the send: the code copies items without looking at them, so
\* items that are all different show every loss, duplication and reordering
\* that any items could show.
SendCall(t) ==
  /\ mutex_lock(t, NotInCall, "s_crit")
  /\ arg' = [arg EXCEPT ![t] = nsends + 1]
  /\ ret' = [ret EXCEPT ![t] = FALSE]
  /\ waited' = [waited EXCEPT ![t] = FALSE]
  /\ out' = [out EXCEPT ![t] = 0]
  /\ ncalls' = ncalls + 1
  /\ nsends' = nsends + 1
  /\ malloc_failed' = FALSE
  /\ UNCHANGED <<made, chan, send_cond, recv_cond, sent, received, recvd_at_close>>

\* Mutant of GrownQueue: the items are copied in one piece from recv_ptr on,
\* as if they never wrapped around the end of the buffer.
GrownQueueOnePiece(q, cap, cnt, rp, sp) ==
  LET old(i) == IF i \in DOMAIN q THEN q[i] ELSE Uninit
  IN [i \in 0..(2 * cap - 1) |-> IF i < cnt THEN old(rp + i) ELSE Uninit]

\* The buffer after growth: 2 * cap slots of malloc'ed memory, the items
\* copied to its start by the memcpy calls of the branch taken.
GrownQueue(q, cap, cnt, rp, sp) ==
  LET old(i) == IF i \in DOMAIN q THEN q[i] ELSE Uninit
      start_items == cap - rp
  IN [i \in 0..(2 * cap - 1) |->
        IF rp < sp
          THEN IF i < cnt THEN old(rp + i) ELSE Uninit
          ELSE IF i < start_items THEN old(rp + i)
               ELSE IF i < start_items + sp THEN old(i - start_items)
               ELSE Uninit]

\* Unlock and return false; oom: malloc has just returned NULL.
SendFail(t, oom) ==
  /\ mu' = NoThread
  /\ pc' = [pc EXCEPT ![t] = "s_done"]
  /\ ret' = [ret EXCEPT ![t] = FALSE]
  /\ arg' = [arg EXCEPT ![t] = 0]
  /\ malloc_failed' = oom
  /\ UNCHANGED <<made, progress, chan, send_cond, recv_cond, waited, out, sent, received,
                 ncalls, nsends, recvd_at_close>>

\* pthread_cond_wait(&ch->send_cond, &ch->mu): release the mutex and block.
SendWait(t) ==
  /\ mu' = NoThread
  /\ send_cond' = send_cond \cup {t}
  /\ pc' = [pc EXCEPT ![t] = "s_wait"]
  /\ waited' = [waited EXCEPT ![t] = TRUE]
  /\ UNCHANGED <<made, progress, chan, recv_cond, arg, ret, out, hist>>

\* Mutant of SendStore: count is not incremented.
SendStoreNoCount(t, q, cap, rp, sp) ==
  \E w \in cond_signal(recv_cond) :
    /\ queue' = [i \in DOMAIN q |-> IF i = sp THEN arg[t] ELSE q[i]]
    /\ count' = count
    /\ capacity' = cap
    /\ recv_ptr' = rp
    /\ send_ptr' = (sp + 1) % cap
    /\ recv_cond' = recv_cond \ w
    /\ pc' = Moved(t, "s_done", {}, w)
    /\ mu' = NoThread
    /\ ret' = [ret EXCEPT ![t] = TRUE]
    /\ arg' = [arg EXCEPT ![t] = 0]
    /\ sent' = Append(sent, arg[t])
    /\ UNCHANGED <<made, progress, item_size, flags, send_cond, waited, out, received, ncalls,
                   nsends, malloc_failed, recvd_at_close>>

\* Mutant of SendStore: send_ptr is incremented without wrapping around; a
\* store past the end of the buffer does not land in a slot.
SendStoreNoWrap(t, q, cap, rp, sp) ==
  \E w \in cond_signal(recv_cond) :
    /\ queue' = [i \in DOMAIN q |-> IF i = sp THEN arg[t] ELSE q[i]]
    /\ count' = count + 1
    /\ capacity' = cap
    /\ recv_ptr' = rp
    /\ send_ptr' = sp + 1
    /\ recv_cond' = recv_cond \ w
    /\ pc' = Moved(t, "s_done", {}, w)
    /\ mu' = NoThread
    /\ ret' = [ret EXCEPT ![t] = TRUE]
    /\ arg' = [arg EXCEPT ![t] = 0]
    /\ sent' = Append(sent, arg[t])
    /\ UNCHANGED <<made, progress, item_size, flags, send_cond, waited, out,
                   received, ncalls, nsends, malloc_failed, recvd_at_close>>

\* Mutant of SendStore: no receiver is signalled.
SendStoreNoSignal(t, q, cap, rp, sp) ==
  /\ queue' = [i \in DOMAIN q |-> IF i = sp THEN arg[t] ELSE q[i]]
  /\ count' = count + 1
  /\ capacity' = cap
  /\ recv_ptr' = rp
  /\ send_ptr' = (sp + 1) % cap
  /\ pc' = Moved(t, "s_done", {}, {})
  /\ mu' = NoThread
  /\ ret' = [ret EXCEPT ![t] = TRUE]
  /\ arg' = [arg EXCEPT ![t] = 0]
  /\ sent' = Append(sent, arg[t])
  /\ UNCHANGED <<made, progress, item_size, flags, send_cond, recv_cond, waited,
                 out, received, ncalls, nsends, malloc_failed, recvd_at_close>>

\* Copy the item into the slot at sp of buffer q of cap slots, whose first
\* unread item is at rp; signal a receiver, unlock, return true.
SendStore(t, q, cap, rp, sp) ==
  \E w \in cond_signal(recv_cond) :
    /\ queue' = [i \in DOMAIN q |-> IF i = sp THEN arg[t] ELSE q[i]]
    /\ count' = count + 1
    /\ capacity' = cap
    /\ recv_ptr' = rp
    /\ send_ptr' = (sp + 1) % cap
    /\ recv_cond' = recv_cond \ w
    /\ pc' = Moved(t, "s_done", {}, w)
    /\ mu' = NoThread
    /\ ret' = [ret EXCEPT ![t] = TRUE]
    /\ arg' = [arg EXCEPT ![t] = 0]
    /\ sent' = Append(sent, arg[t])
    /\ UNCHANGED <<made, progress, item_size, flags, send_cond, waited, out, received, ncalls,
                   nsends, malloc_failed, recvd_at_close>>

\* Mutant of SendGrow: send_ptr is not set to count after the items are moved.
SendGrowStaleCursor(t) ==
  \E malloc_ok \in BOOLEAN :
    IF malloc_ok
      THEN SendStore(t, GrownQueue(queue, capacity, count, recv_ptr, send_ptr),
                     capacity * 2, 0, send_ptr)
      ELSE SendFail(t, TRUE)

\* Mutant of SendGrow: capacity is doubled before the result of malloc is
\* tested, so a failed growth leaves the doubled capacity behind.
SendGrowCapacityFirst(t) ==
  \E malloc_ok \in BOOLEAN :
    IF malloc_ok
      THEN SendStore(t, GrownQueue(queue, capacity, count, recv_ptr, send_ptr),
                     capacity * 2, 0, count)
      ELSE /\ capacity' = capacity * 2
           /\ mu' = NoThread
           /\ pc' = [pc EXCEPT ![t] = "s_done"]
           /\ ret' = [ret EXCEPT ![t] = FALSE]
           /\ arg' = [arg EXCEPT ![t] = 0]
           /\ malloc_failed' = TRUE
           /\ UNCHANGED <<made, progress, item_size, count, recv_ptr, send_ptr, flags,
                          queue, send_cond, recv_cond, waited, out, sent,
                          received, ncalls, nsends, recvd_at_close>>

\* The unbounded branch with no room left: double the buffer, or return false
\* when malloc fails.
SendGrow(t) ==
  \E malloc_ok \in BOOLEAN :
    IF malloc_ok
      THEN SendStore(t, GrownQueue(queue, capacity, count, recv_ptr, send_ptr),
                     capacity * 2, 0, count)
      ELSE SendFail(t, TRUE)

\* Mutant of SendBounded: the closed flag is not checked after the loop.
SendBoundedNoRecheck(t) ==
  IF count >= capacity /\ ~closed
    THEN SendWait(t)
    ELSE SendStore(t, queue, capacity, recv_ptr, send_ptr)

\* Mutant of SendBounded: a full channel does not make the sender wait.
SendBoundedNoWait(t) ==
  IF closed
    THEN SendFail(t, FALSE)
    ELSE SendStore(t, queue, capacity, recv_ptr, send_ptr)

\* Mutant of SendBounded: the loop condition is count > capacity.
SendBoundedOffByOne(t) ==
  IF count > capacity /\ ~closed
    THEN SendWait(t)
    ELSE IF closed
      THEN SendFail(t, FALSE)
      ELSE SendStore(t, queue, capacity, recv_ptr, send_ptr)

\* Mutant of SendBounded: a full channel makes the send fail.
SendBoundedFailFull(t) ==
  IF count >= capacity \/ closed
    THEN SendFail(t, FALSE)
    ELSE SendStore(t, queue, capacity, recv_ptr, send_ptr)

\* The while loop of the bounded branch and what follows it.
SendBounded(t) ==
  IF count >= capacity /\ ~closed
    THEN SendWait(t)
    ELSE IF closed
      THEN SendFail(t, FALSE)
      ELSE SendStore(t, queue, capacity, recv_ptr, send_ptr)

\* Mutant of SendBody: the mode is not looked at, every channel is treated as
\* a bounded one.
SendBodyAlwaysBounded(t) ==
  /\ pc[t] = "s_crit"
  /\ mu = t
  /\ IF closed
       THEN SendFail(t, FALSE)
       ELSE SendBounded(t)

\* Mutant of SendBody: the unbounded buffer grows one send early, when the
\* item being sent would fill the last free slot.
SendBodyGrowEarly(t) ==
  /\ pc[t] = "s_crit"
  /\ mu = t
  /\ IF closed
       THEN SendFail(t, FALSE)
       ELSE IF bounded
         THEN SendBounded(t)
         ELSE IF capacity <= count + 1
           THEN SendGrow(t)
           ELSE SendStore(t, queue, capacity, recv_ptr, send_ptr)

\* Mutant of SendBody: the closed flag is not checked first.
SendBodyNoClosedCheck(t) ==
  /\ pc[t] = "s_crit"
  /\ mu = t
  /\ IF bounded
       THEN SendBounded(t)
       ELSE IF capacity <= count
         THEN SendGrow(t)
         ELSE SendStore(t, queue, capacity, recv_ptr, send_ptr)

\* channel_send from the first check of the closed flag, holding the mutex.
SendBody(t) ==
  /\ pc[t] = "s_crit"
  /\ mu = t
  /\ IF closed
       THEN SendFail(t, FALSE)
       ELSE IF bounded
         THEN SendBounded(t)
         ELSE IF capacity <= count
           THEN SendGrow(t)
           ELSE SendStore(t, queue, capacity, recv_ptr, send_ptr)

\* pthread_cond_wait returns in channel_send: the mutex is taken again.
SendRelock(t) ==
  /\ mutex_lock(t, {"s_wake"}, "s_loop")
  /\ UNCHANGED <<made, progress, chan, send_cond, recv_cond, thread, hist>>

\* Mutant of SendLoop: the loop is an if, a woken sender does not test for
\* room again.
SendLoopNoRecheck(t) ==
  /\ pc[t] = "s_loop"
  /\ mu = t
  /\ IF closed
       THEN SendFail(t, FALSE)
       ELSE SendStore(t, queue, capacity, recv_ptr, send_ptr)

\* channel_send back at the loop condition after pthread_cond_wait.
SendLoop(t) ==
  /\ pc[t] = "s_loop"
  /\ mu = t
  /\ SendBounded(t)

\* ---------------------------------------------------------- channel_recv

\* A thread calls channel_recv and takes the mutex. out is its *value.
RecvCall(t) ==
  /\ mutex_lock(t, NotInCall, "r_crit")
  /\ ret' = [ret EXCEPT ![t] = FALSE]
  /\ waited' = [waited EXCEPT ![t] = FALSE]
  /\ out' = [out EXCEPT ![t] = 0]
  /\ ncalls' = ncalls + 1
  /\ UNCHANGED <<made, chan, send_cond, recv_cond, arg, sent, received, nsends,
                 malloc_failed, recvd_at_close>>

\* Unlock and return false.
RecvFail(t) ==
  /\ mu' = NoThread
  /\ pc' = [pc EXCEPT ![t] = "r_done"]
  /\ ret' = [ret EXCEPT ![t] = FALSE]
  /\ UNCHANGED <<made, progress, chan, send_cond, recv_cond, arg, waited, out, hist>>

\* pthread_cond_wait(&ch->recv_cond, &ch->mu): release the mutex and block.
RecvWait(t) ==
  /\ mu' = NoThread
  /\ recv_cond' = recv_cond \cup {t}
  /\ pc' = [pc EXCEPT ![t] = "r_wait"]
  /\ waited' = [waited EXCEPT ![t] = TRUE]
  /\ UNCHANGED <<made, progress, chan, send_cond, arg, ret, out, hist>>

\* Mutant of RecvTake: recv_ptr is not advanced.
RecvTakeNoAdvance(t) ==
  \E w \in cond_signal(send_cond) :
    /\ out' = [out EXCEPT ![t] = queue[recv_ptr]]
    /\ count' = count - 1
    /\ recv_ptr' = recv_ptr
    /\ send_cond' = send_cond \ w
    /\ pc' = Moved(t, "r_done", w, {})
    /\ mu' = NoThread
    /\ ret' = [ret EXCEPT ![t] = TRUE]
    /\ received' = Append(received, queue[recv_ptr])
    /\ UNCHANGED <<made, progress, item_size, capacity, send_ptr, flags, queue, recv_cond,
                   arg, waited, sent, ncalls, nsends, malloc_failed,
                   recvd_at_close>>

\* Mutant of RecvTake: no sender is signalled.
RecvTakeNoSignal(t) ==
  /\ out' = [out EXCEPT ![t] = queue[recv_ptr]]
  /\ count' = count - 1
  /\ recv_ptr' = (recv_ptr + 1) % capacity
  /\ pc' = Moved(t, "r_done", {}, {})
  /\ mu' = NoThread
  /\ ret' = [ret EXCEPT ![t] = TRUE]
  /\ received' = Append(received, queue[recv_ptr])
  /\ UNCHANGED <<made, progress, item_size, capacity, send_ptr, flags, queue,
                 send_cond, recv_cond, arg, waited, sent, ncalls, nsends,
                 malloc_failed, recvd_at_close>>

\* Mutant of RecvTake: recv_ptr is incremented without wrapping around.
RecvTakeNoWrap(t) ==
  \E w \in cond_signal(send_cond) :
    /\ out' = [out EXCEPT ![t] = queue[recv_ptr]]
    /\ count' = count - 1
    /\ recv_ptr' = recv_ptr + 1
    /\ send_cond' = send_cond \ w
    /\ pc' = Moved(t, "r_done", w, {})
    /\ mu' = NoThread
    /\ ret' = [ret EXCEPT ![t] = TRUE]
    /\ received' = Append(received, queue[recv_ptr])
    /\ UNCHANGED <<made, progress, item_size, capacity, send_ptr, flags, queue,
                   recv_cond, arg, waited, sent, ncalls, nsends, malloc_failed,
                   recvd_at_close>>

\* Mutant of RecvTake: count is not decremented.
RecvTakeNoCount(t) ==
  \E w \in cond_signal(send_cond) :
    /\ out' = [out EXCEPT ![t] = queue[recv_ptr]]
    /\ count' = count
    /\ recv_ptr' = (recv_ptr + 1) % capacity
    /\ send_cond' = send_cond \ w
    /\ pc' = Moved(t, "r_done", w, {})
    /\ mu' = NoThread
    /\ ret' = [ret EXCEPT ![t] = TRUE]
    /\ received' = Append(received, queue[recv_ptr])
    /\ UNCHANGED <<made, progress, item_size, capacity, send_ptr, flags, queue,
                   recv_cond, arg, waited, sent, ncalls, nsends, malloc_failed,
                   recvd_at_close>>

\* Mutant of RecvTake: send_cond is broadcast, not signalled.
RecvTakeBroadcast(t) ==
  /\ out' = [out EXCEPT ![t] = queue[recv_ptr]]
  /\ count' = count - 1
  /\ recv_ptr' = (recv_ptr + 1) % capacity
  /\ send_cond' = send_cond \ cond_broadcast(send_cond)
  /\ pc' = Moved(t, "r_done", cond_broadcast(send_cond), {})
  /\ mu' = NoThread
  /\ ret' = [ret EXCEPT ![t] = TRUE]
  /\ received' = Append(received, queue[recv_ptr])
  /\ UNCHANGED <<made, progress, item_size, capacity, send_ptr, flags, queue,
                 recv_cond, arg, waited, sent, ncalls, nsends, malloc_failed,
                 recvd_at_close>>

\* Copy the item at recv_ptr out; signal a sender, unlock, return true.
RecvTake(t) ==
  \E w \in cond_signal(send_cond) :
    /\ out' = [out EXCEPT ![t] = queue[recv_ptr]]
    /\ count' = count - 1
    /\ recv_ptr' = (recv_ptr + 1) % capacity
    /\ send_cond' = send_cond \ w
    /\ pc' = Moved(t, "r_done", w, {})
    /\ mu' = NoThread
    /\ ret' = [ret EXCEPT ![t] = TRUE]
    /\ received' = Append(received, queue[recv_ptr])
    /\ UNCHANGED <<made, progress, item_size, capacity, send_ptr, flags, queue, recv_cond,
                   arg, waited, sent, ncalls, nsends, malloc_failed,
                   recvd_at_close>>

\* Mutant of RecvBody: a closed channel makes the recv fail, items or not.
RecvBodyClosedFirst(t) ==
  /\ pc[t] = "r_crit"
  /\ mu = t
  /\ IF closed
       THEN RecvFail(t)
       ELSE IF count = 0
         THEN RecvWait(t)
         ELSE RecvTake(t)

\* Mutant of RecvBody: an empty channel makes the recv fail, closed or not.
RecvBodyNoWait(t) ==
  /\ pc[t] = "r_crit"
  /\ mu = t
  /\ IF count = 0
       THEN RecvFail(t)
       ELSE RecvTake(t)

\* channel_recv from its loop condition, holding the mutex.
RecvBody(t) ==
  /\ pc[t] = "r_crit"
  /\ mu = t
  /\ IF count = 0 /\ ~closed
       THEN RecvWait(t)
       ELSE IF count = 0 /\ closed
         THEN RecvFail(t)
         ELSE RecvTake(t)

\* pthread_cond_wait returns in channel_recv: the mutex is taken again.
RecvRelock(t) ==
  /\ mutex_lock(t, {"r_wake"}, "r_crit")
  /\ UNCHANGED <<made, progress, chan, send_cond, recv_cond, thread, hist>>

\* --------------------------------------------------------- channel_close

\* A thread calls channel_close and takes the mutex.
CloseCall(t) ==
  /\ mutex_lock(t, NotInCall, "c_crit")
  /\ ret' = [ret EXCEPT ![t] = FALSE]
  /\ waited' = [waited EXCEPT ![t] = FALSE]
  /\ out' = [out EXCEPT ![t] = 0]
  /\ ncalls' = ncalls + 1
  /\ UNCHANGED <<made, chan, send_cond, recv_cond, arg, sent, received, nsends,
                 malloc_failed, recvd_at_close>>

\* Mutant of CloseBody: the conditions are signalled, not broadcast.
CloseBodySignal(t) ==
  \E ws \in cond_signal(send_cond), wr \in cond_signal(recv_cond) :
    /\ pc[t] = "c_crit"
    /\ mu = t
    /\ flags' = SetFlag(flags, CH_CLOSED)
    /\ send_cond' = send_cond \ ws
    /\ recv_cond' = recv_cond \ wr
    /\ pc' = Moved(t, "c_done", ws, wr)
    /\ mu' = NoThread
    /\ recvd_at_close' = IF closed THEN recvd_at_close ELSE Len(received)
    /\ UNCHANGED <<made, progress, item_size, count, capacity, recv_ptr, send_ptr, queue,
                   thread, sent, received, ncalls, nsends, malloc_failed>>

\* Mutant of CloseBody: the closed bit is flipped, flags ^= CH_CLOSED.
CloseBodyToggle(t) ==
  /\ pc[t] = "c_crit"
  /\ mu = t
  /\ flags' = IF closed THEN flags - CH_CLOSED ELSE flags + CH_CLOSED
  /\ send_cond' = send_cond \ cond_broadcast(send_cond)
  /\ recv_cond' = recv_cond \ cond_broadcast(recv_cond)
  /\ pc' = Moved(t, "c_done", cond_broadcast(send_cond),
                 cond_broadcast(recv_cond))
  /\ mu' = NoThread
  /\ recvd_at_close' = IF closed THEN recvd_at_close ELSE Len(received)
  /\ UNCHANGED <<made, progress, item_size, count, capacity, recv_ptr, send_ptr, queue,
                 thread, sent, received, ncalls, nsends, malloc_failed>>

\* Mutant of CloseBody: the closed bit is added, flags += CH_CLOSED.
CloseBodyAdd(t) ==
  /\ pc[t] = "c_crit"
  /\ mu = t
  /\ flags' = flags + CH_CLOSED
  /\ send_cond' = send_cond \ cond_broadcast(send_cond)
  /\ recv_cond' = recv_cond \ cond_broadcast(recv_cond)
  /\ pc' = Moved(t, "c_done", cond_broadcast(send_cond),
                 cond_broadcast(recv_cond))
  /\ mu' = NoThread
  /\ recvd_at_close' = IF closed THEN recvd_at_close ELSE Len(received)
  /\ UNCHANGED <<made, progress, item_size, count, capacity, recv_ptr, send_ptr, queue,
                 thread, sent, received, ncalls, nsends, malloc_failed>>

\* Mutant of CloseBody: the flags are masked with the closed bit instead of
\* having it set, flags &= CH_CLOSED.
CloseBodyMask(t) ==
  /\ pc[t] = "c_crit"
  /\ mu = t
  /\ flags' = IF closed THEN CH_CLOSED ELSE 0
  /\ send_cond' = send_cond \ cond_broadcast(send_cond)
  /\ recv_cond' = recv_cond \ cond_broadcast(recv_cond)
  /\ pc' = Moved(t, "c_done", cond_broadcast(send_cond),
                 cond_broadcast(recv_cond))
  /\ mu' = NoThread
  /\ recvd_at_close' = IF closed THEN recvd_at_close ELSE Len(received)
  /\ UNCHANGED <<made, progress, item_size, count, capacity, recv_ptr, send_ptr, queue,
                 thread, sent, received, ncalls, nsends, malloc_failed>>

\* Set the closed bit, wake every waiting thread, unlock.
CloseBody(t) ==
  /\ pc[t] = "c_crit"
  /\ mu = t
  /\ flags' = SetFlag(flags, CH_CLOSED)
  /\ send_cond' = send_cond \ cond_broadcast(send_cond)
  /\ recv_cond' = recv_cond \ cond_broadcast(recv_cond)
  /\ pc' = Moved(t, "c_done", cond_broadcast(send_cond),
                 cond_broadcast(recv_cond))
  /\ mu' = NoThread
  /\ recvd_at_close' = IF closed THEN recvd_at_close ELSE Len(received)
  /\ UNCHANGED <<made, progress, item_size, count, capacity, recv_ptr, send_ptr, queue,
                 thread, sent, received, ncalls, nsends, malloc_failed>>

\* ------------------------------------------------------ spurious wakeups

\* pthread_cond_wait may return although nobody signalled the condition.
SpuriousWake(t) ==
  /\ t \in send_cond \cup recv_cond
  /\ send_cond' = send_cond \ {t}
  /\ recv_cond' = recv_cond \ {t}
  /\ pc' = Moved(t, IF t \in send_cond THEN "s_wake" ELSE "r_wake", {}, {})
  /\ UNCHANGED <<made, progress, chan, mu, thread, hist>>

\* --------------------------------------------------------- specification

\* The threads that make calls and the number of calls they make together.
\* An unbounded channel grows at its 17th unread item, so the runs on it are
\* longer, and they have fewer threads.
Callers == IF bounded THEN Threads ELSE 1..NumGrowThreads

Budget == IF bounded THEN MaxCalls ELSE MaxGrowCalls

\* A thread makes calls only on a channel that channel_create returned.
MayCall(t) == handle = "ch" /\ t \in Callers /\ ncalls < Budget

Next ==
  \E t \in Threads :
    \/ MayCall(t) /\ SendCall(t) /\ UNCHANGED progress
    \/ MayCall(t) /\ RecvCall(t) /\ UNCHANGED progress
    \/ MayCall(t) /\ CloseCall(t) /\ UNCHANGED progress
    \/ SendBody(t)
    \/ SendRelock(t)
    \/ SendLoop(t)
    \/ RecvBody(t)
    \/ RecvRelock(t)
    \/ CloseBody(t)
    \/ SpuriousWake(t)

Spec == Init /\ [][Next]_vars


\* Fair scheduling: a thread that holds the mutex runs on to the statement
\* that releases it, and a thread that pthread_cond_wait has woken gets the
\* mutex once it stays free. Nothing makes a thread start a call, and nothing
\* makes a wakeup that nobody signalled happen.
Fairness ==
  \A t \in Threads :
    /\ WF_vars(SendBody(t))
    /\ WF_vars(SendLoop(t))
    /\ WF_vars(RecvBody(t))
    /\ WF_vars(CloseBody(t))
    /\ WF_vars(SendRelock(t))
    /\ WF_vars(RecvRelock(t))

FairSpec == Spec /\ Fairness


\* ------------------------------------------- the producer/consumer tests

\* The threads of test_multiple_producers_single_consumer: the producers, one
\* consumer, and the main thread, on a bounded channel.
Consumer == NumThreads

Producers == Threads \ {Consumer}

\* cons_args.count: the number of items the consumer is told to expect.
Expected == Cardinality(Producers) * ItemsEach

PcInit ==
  /\ \E cap \in 1..MaxCap : InitChannel(cap)
  /\ InitThreads
  /\ handle = "ch"
  /\ wild_write = FALSE
  /\ alloc_failed = "no"

\* A thread function returns.
ThreadReturn(t) ==
  /\ pc' = [pc EXCEPT ![t] = "exit"]
  /\ UNCHANGED <<made, chan, mu, send_cond, recv_cond, thread, hist>>

\* producer_thread: the next channel_send of the for loop; progress is i.
ProducerSend(t) ==
  /\ progress[t] < ItemsEach
  /\ pc[t] = "s_done" => ret[t]
  /\ SendCall(t)
  /\ progress' = [progress EXCEPT ![t] = @ + 1]

\* producer_thread: break when channel_send returned false, or the end of the
\* loop.
ProducerReturn(t) ==
  /\ pc[t] = "s_done"
  /\ ~ret[t] \/ progress[t] >= ItemsEach
  /\ ThreadReturn(t)
  /\ UNCHANGED progress

\* consumer_thread: received, after the received++ of the loop body when the
\* channel_recv of the loop condition has just returned true.
Got(t) == progress[t] + (IF pc[t] = "r_done" /\ ret[t] THEN 1 ELSE 0)

\* consumer_thread: received < args->count holds, channel_recv is called.
ConsumerRecv(t) ==
  /\ pc[t] = "r_done" => ret[t]
  /\ Got(t) < Expected
  /\ RecvCall(t)
  /\ progress' = [progress EXCEPT ![t] = Got(t)]

\* consumer_thread: the loop ends, with received items or on a failed recv.
ConsumerReturn(t) ==
  /\ pc[t] = "r_done"
  /\ ~ret[t] \/ Got(t) >= Expected
  /\ ThreadReturn(t)
  /\ progress' = [progress EXCEPT ![t] = Got(t)]

\* The main thread: pthread_join of every producer, then channel_close.
MainClose ==
  /\ pc[Main] = "idle"
  /\ \A p \in Producers : pc[p] = "exit"
  /\ CloseCall(Main)
  /\ UNCHANGED progress

\* The main thread: pthread_join of the consumer.
MainJoin ==
  /\ pc[Main] = "c_done"
  /\ pc[Consumer] = "exit"
  /\ ThreadReturn(Main)
  /\ UNCHANGED progress

PcNext ==
  \/ \E t \in Producers :
       \/ ProducerSend(t)
       \/ SendBody(t)
       \/ SendRelock(t)
       \/ SendLoop(t)
       \/ ProducerReturn(t)
  \/ ConsumerRecv(Consumer)
  \/ RecvBody(Consumer)
  \/ RecvRelock(Consumer)
  \/ ConsumerReturn(Consumer)
  \/ MainClose
  \/ CloseBody(Main)
  \/ MainJoin
  \/ \E t \in Threads : SpuriousWake(t)

\* Fair scheduling of the test: every thread that can run does, and a thread
\* that asks for the mutex gets it when the mutex is free again and again.
PcFairness ==
  /\ \A t \in Producers :
       /\ SF_vars(ProducerSend(t))
       /\ WF_vars(SendBody(t))
       /\ SF_vars(SendRelock(t))
       /\ WF_vars(SendLoop(t))
       /\ WF_vars(ProducerReturn(t))
  /\ SF_vars(ConsumerRecv(Consumer))
  /\ WF_vars(RecvBody(Consumer))
  /\ SF_vars(RecvRelock(Consumer))
  /\ WF_vars(ConsumerReturn(Consumer))
  /\ SF_vars(MainClose)
  /\ WF_vars(CloseBody(Main))
  /\ WF_vars(MainJoin)

PcSpec == PcInit /\ [][PcNext]_vars /\ PcFairness

\* ------------------------------------------------ the fill-and-drain test

\* test_bounded_wraparound, run by the main thread on a bounded channel of
\* capacity k: in each round k sends, then k recvs. progress is the number of
\* calls made; an ASSERT that fails ends the test.
WrapInit ==
  /\ \E k \in 1..MaxWrapCap : InitChannel(k)
  /\ InitThreads
  /\ handle = "ch"
  /\ wild_write = FALSE
  /\ alloc_failed = "no"

\* The call comes after a call that succeeded, before the last round's end.
WrapGoesOn ==
  /\ pc[Main] \in {"s_done", "r_done"} => ret[Main]
  /\ progress[Main] < 2 * capacity * MaxRounds

\* The next call belongs to the first loop of its round, the sends.
WrapFilling == progress[Main] % (2 * capacity) < capacity

WrapSend ==
  /\ WrapGoesOn
  /\ WrapFilling
  /\ SendCall(Main)
  /\ progress' = [progress EXCEPT ![Main] = @ + 1]

WrapRecv ==
  /\ WrapGoesOn
  /\ ~WrapFilling
  /\ RecvCall(Main)
  /\ progress' = [progress EXCEPT ![Main] = @ + 1]

WrapNext ==
  \/ WrapSend
  \/ SendBody(Main)
  \/ WrapRecv
  \/ RecvBody(Main)

\* The main thread runs on as long as it can.
WrapSpec == WrapInit /\ [][WrapNext]_vars /\ WF_vars(WrapNext)

\* ------------------------------------------------------------ the claims

\* The unread items, oldest first: the count slots from recv_ptr on, around
\* the end of the buffer.
Buffered == [i \in 1..count |-> queue[(recv_ptr + i - 1) % capacity]]

\* The number of times v occurs in sequence s, for every v that occurs.
BagOf(s) ==
  [v \in {s[i] : i \in DOMAIN s} |-> Cardinality({i \in DOMAIN s : s[i] = v})]

\* C1: FIFO. The items the successful channel_recv calls returned, in the
\* order those calls completed, are the first items the successful
\* channel_send calls enqueued, in the order those calls completed.
C1_Fifo ==
  /\ Len(received) <= Len(sent)
  /\ \A i \in 1..Len(received) : received[i] = sent[i]

\* Three items were sent on a bounded channel, whose cursors have wrapped, and
\* two of them received.
C1_Witness ==
  /\ bounded
  /\ Len(sent) = 3
  /\ Len(received) = 2
  /\ received = SubSeq(sent, 1, 2)

\* C2: conservation. The sends that succeeded minus the recvs that succeeded
\* are the count unread items; the items received and the items still
\* buffered are, as a multiset, the items sent; so a closed and drained
\* channel has delivered as many items as were sent.
C2_Conservation ==
  /\ Len(sent) - Len(received) = count
  /\ BagOf(received \o Buffered) = BagOf(sent)
  /\ (closed /\ count = 0) => Len(received) = Len(sent)

\* A closed, drained channel that delivered the items of two senders.
C2_Witness ==
  /\ closed
  /\ count = 0
  /\ Len(received) = 2
  /\ \E t1, t2 \in Threads :
       /\ t1 # t2
       /\ pc[t1] = "s_done" /\ ret[t1]
       /\ pc[t2] = "s_done" /\ ret[t2]

\* C8: 0 <= count <= capacity in every reachable state.
C8_CountInRange == 0 <= count /\ count <= capacity

\* A full bounded channel holding a sender off, and an item already taken.
C8_Witness ==
  /\ bounded
  /\ count = capacity
  /\ send_cond # {}
  /\ Len(received) > 0


\* Thread t completes, or blocks in, the part of its call that began at
\* position p.
Leaves(t, p) == pc[t] = p /\ pc'[t] # p

\* C3: send after close always fails. A channel_send that finds the channel
\* closed when it starts returns false; it does not wait, and it changes no
\* field of the channel and enqueues nothing, whatever the occupancy and the
\* mode.
C3_SendAfterCloseFails ==
  [][\A t \in Threads :
       (closed /\ Leaves(t, "s_crit")) =>
         /\ pc'[t] = "s_done"
         /\ ret'[t] = FALSE
         /\ waited'[t] = FALSE
         /\ t \notin send_cond'
         /\ chan' = chan
         /\ sent' = sent]_vars

\* A send has failed on a closed bounded channel that is full, without having
\* waited: on an open full channel it would have waited, so it started after
\* the close.
C3_Witness ==
  /\ closed
  /\ bounded
  /\ count = capacity
  /\ \E t \in Threads : pc[t] = "s_done" /\ ~ret[t] /\ ~waited[t]

\* C4: close then drain. Once the channel is closed nothing more is sent, so
\* the n items it held at the close stay the only unread ones; every
\* channel_recv that runs while some are left returns the oldest of them and
\* true, and every channel_recv that runs when none is left returns false
\* without waiting: the recvs that succeed after the close are exactly n.
C4_CloseThenDrain ==
  /\ [](closed => /\ Len(sent) - recvd_at_close = count + (Len(received) - recvd_at_close)
                  /\ recvd_at_close <= Len(received))
  /\ [][closed =>
         /\ sent' = sent
         /\ \A t \in Threads :
              Leaves(t, "r_crit") =>
                IF count > 0
                  THEN /\ pc'[t] = "r_done"
                       /\ ret'[t] = TRUE
                       /\ out'[t] = sent[Len(received) + 1]
                       /\ received' = Append(received, sent[Len(received) + 1])
                       /\ count' = count - 1
                  ELSE /\ pc'[t] = "r_done"
                       /\ ret'[t] = FALSE
                       /\ t \notin recv_cond'
                       /\ received' = received
                       /\ count' = 0]_vars

\* Two items were received after the close, none is left, and a further recv
\* has returned false.
C4_Witness ==
  /\ closed
  /\ count = 0
  /\ Len(received) - recvd_at_close = 2
  /\ \E t \in Threads : pc[t] = "r_done" /\ ~ret[t]

\* A thread is taking the channel_close call's step that sets the closed bit.
Closing == \E c \in Threads : pc[c] = "c_crit"

\* C5: no deadlock on close. Under fair scheduling every thread that is
\* blocked in channel_send when channel_close runs, and every thread that is
\* blocked in channel_recv on an empty channel when channel_close runs,
\* returns from its call, and returns false.
C5_CloseUnblocksAll ==
  \A t \in Threads :
    /\ (Closing /\ t \in send_cond) ~> (pc[t] = "s_done" /\ ~ret[t])
    /\ (Closing /\ t \in recv_cond /\ count = 0) ~> (pc[t] = "r_done" /\ ~ret[t])

\* Two senders that had blocked have returned false from a closed channel.
C5_Witness ==
  /\ closed
  /\ \E t1, t2 \in Threads :
       /\ t1 # t2
       /\ pc[t1] = "s_done" /\ ~ret[t1] /\ waited[t1]
       /\ pc[t2] = "s_done" /\ ~ret[t2] /\ waited[t2]

\* C6: no enqueue after close. Once the channel is closed count never
\* increases and nothing is sent; a sender that pthread_cond_wait gives the
\* mutex back to after the close returns false and leaves the channel as it
\* is, also when there is room by then.
C6_NoEnqueueAfterClose ==
  [][closed =>
       /\ count' <= count
       /\ sent' = sent
       /\ \A t \in Threads :
            Leaves(t, "s_loop") =>
              /\ pc'[t] = "s_done"
              /\ ret'[t] = FALSE
              /\ chan' = chan]_vars

\* After the close a sender that had waited is back at its loop condition and
\* finds room, and another sender that had waited has returned false.
C6_Witness ==
  /\ closed
  /\ bounded
  /\ count < capacity
  /\ \E t1, t2 \in Threads :
       /\ pc[t1] = "s_loop" /\ waited[t1]
       /\ pc[t2] = "s_done" /\ waited[t2] /\ ~ret[t2]

\* A thread inside channel_send at one of its two decision points.
Deciding(t) == pc[t] \in {"s_crit", "s_loop"}

\* C7: backpressure. A channel_send that finds an open bounded channel full
\* blocks and changes nothing; a blocked sender does not return before it has
\* the mutex again; a send returns from a bounded channel only when it found
\* room or the channel closed, returns false only when the channel is closed,
\* and a send that returns true has added its item behind the unread ones and
\* left them as they were.
C7_Backpressure ==
  [][\A t \in Threads :
       /\ (Deciding(t) /\ pc'[t] # pc[t] /\ bounded /\ ~closed
             /\ count = capacity) =>
            /\ pc'[t] = "s_wait"
            /\ t \in send_cond'
            /\ chan' = chan
            /\ sent' = sent
       /\ (pc[t] = "s_wait" /\ pc'[t] # pc[t]) => pc'[t] = "s_wake"
       /\ (pc[t] = "s_wake" /\ pc'[t] # pc[t]) =>
            /\ pc'[t] = "s_loop"
            /\ chan' = chan
       /\ (Deciding(t) /\ pc'[t] = "s_done" /\ bounded) =>
            /\ closed \/ count < capacity
            /\ ret'[t] = ~closed
            /\ ret'[t] => Buffered' = Append(Buffered, arg[t])]_vars

\* A sender that had to wait on a full bounded channel has then sent its item.
C7_Witness ==
  /\ bounded
  /\ ~closed
  /\ \E t \in Threads : pc[t] = "s_done" /\ ret[t] /\ waited[t]

\* C9: channel_recv returns false only from a closed channel with count = 0;
\* on an open empty channel it waits; and when count > 0, open or closed, it
\* takes exactly the oldest item and returns true.
C9_RecvResult ==
  [][\A t \in Threads :
       Leaves(t, "r_crit") =>
         IF count > 0
           THEN /\ pc'[t] = "r_done"
                /\ ret'[t] = TRUE
                /\ count' = count - 1
                /\ out'[t] = Buffered[1]
                /\ Buffered' = Tail(Buffered)
                /\ received' = Append(received, Buffered[1])
           ELSE IF closed
             THEN /\ pc'[t] = "r_done"
                  /\ ret'[t] = FALSE
                  /\ closed'
                  /\ count' = 0
             ELSE /\ pc'[t] = "r_wait"
                  /\ t \in recv_cond'
                  /\ chan' = chan]_vars

\* A recv that had to wait on an open empty channel has returned an item, and
\* another recv has returned false from the closed, empty channel.
C9_Witness ==
  /\ closed
  /\ count = 0
  /\ \E t1, t2 \in Threads :
       /\ pc[t1] = "r_done" /\ ret[t1] /\ waited[t1]
       /\ pc[t2] = "r_done" /\ ~ret[t2]

\* C10: channel_send returns false only if the channel is closed when it
\* returns or the malloc of the growth of an unbounded channel failed, and
\* then it leaves the channel as it is; a send that returns true has enqueued
\* exactly its item.
C10_SendResult ==
  [][\A t \in Threads :
       (Deciding(t) /\ pc'[t] = "s_done") =>
         IF ret'[t]
           THEN /\ ~closed'
                /\ count' = count + 1
                /\ sent' = Append(sent, arg[t])
                /\ Buffered' = Append(Buffered, arg[t])
           ELSE /\ closed' \/ (~bounded /\ count = capacity /\ malloc_failed')
                /\ malloc_failed' => ~closed
                /\ chan' = chan
                /\ sent' = sent]_vars

\* A send has returned false from an open unbounded channel whose growth
\* failed, with its 16 unread items in place.
C10_Witness ==
  /\ ~closed
  /\ ~bounded
  /\ malloc_failed
  /\ count = DefaultCapacity
  /\ \E t \in Threads : pc[t] = "s_done" /\ ~ret[t]

FailedSends == nsends - Len(sent) - Cardinality({t \in Threads : arg[t] # 0})

\* C12: growth failure is recoverable. A channel_send on a full unbounded
\* channel whose malloc fails returns false and leaves count, capacity, the
\* cursors, the flags and the buffer as they were; after such a failure the
\* channel_recv calls go on returning the items sent, in order, and a
\* channel_send whose allocation succeeds is accepted and doubles the buffer.
C12_GrowthFailure ==
  [][\A t \in Threads :
       /\ (Leaves(t, "s_crit") /\ malloc_failed') =>
            /\ ~bounded /\ ~closed /\ count = capacity
            /\ pc'[t] = "s_done"
            /\ ret'[t] = FALSE
            /\ chan' = chan
            /\ Buffered' = Buffered
            /\ sent' = sent
       /\ (~bounded /\ ~closed /\ FailedSends > 0) =>
            /\ (Leaves(t, "r_crit") /\ count > 0) =>
                 /\ ret'[t]
                 /\ out'[t] = sent[Len(received) + 1]
                 /\ count' = count - 1
            /\ (Leaves(t, "s_crit") /\ ~malloc_failed') =>
                 /\ ret'[t]
                 /\ sent' = Append(sent, arg[t])
                 /\ Buffered' = Append(Buffered, arg[t])
                 /\ capacity' = IF count = capacity THEN 2 * capacity
                                                    ELSE capacity]_vars

\* A send failed on the full channel of 16 items, a later send made the
\* buffer grow, and a recv after that returned the first item sent.
C12_Witness ==
  /\ ~bounded
  /\ ~closed
  /\ FailedSends = 1
  /\ capacity = 2 * DefaultCapacity
  /\ Len(sent) = DefaultCapacity + 1
  /\ \E t \in Threads : pc[t] = "r_done" /\ ret[t] /\ out[t] = sent[1]

\* C13: creation failure. When an allocation of channel_create fails, that of
\* the channel structure or that of the buffer, channel_create returns NULL:
\* the process goes on, and nothing was stored outside allocated memory.
\* The code tests the result of calloc only (line 70): the structure is
\* written through the result of malloc untested (lines 51-58).
C13_CreateFailure ==
  alloc_failed # "no" => (handle = "NULL" /\ ~wild_write)

\* The half of C13 the code keeps: a failed calloc gives NULL and nothing
\* else, and without a failed allocation the caller gets its channel.
C13_BufferFailure ==
  /\ alloc_failed = "calloc" => (handle = "NULL" /\ ~wild_write)
  /\ alloc_failed = "no" => (handle = "ch" /\ ~wild_write)

\* C14: closed is monotonic. The channel is open when channel_create returns
\* it; channel_close makes it closed; only channel_close does; and no step of
\* any call makes a closed channel open again.
C14_ClosedMonotonic ==
  /\ [](ncalls = 0 => ~closed)
  /\ [][/\ closed => closed'
        /\ \A t \in Threads : Leaves(t, "c_crit") => closed'
        /\ (~closed /\ closed') => \E t \in Threads : Leaves(t, "c_crit")]_vars

\* The channel is closed after two threads closed it and a third had its recv
\* fail on it.
C14_Witness ==
  /\ closed
  /\ \E t1, t2, t3 \in Threads :
       /\ t1 # t2
       /\ pc[t1] = "c_done"
       /\ pc[t2] = "c_done"
       /\ pc[t3] = "r_done" /\ ~ret[t3]

\* C15: channel_close is idempotent. A channel_close on a closed channel
\* changes no field of the channel and no buffered item, and wakes nobody: it
\* leaves the state the first close left, so the calls that follow fail or
\* succeed as they would have after one close.
C15_CloseIdempotent ==
  [][\A t \in Threads :
       (closed /\ Leaves(t, "c_crit")) =>
         /\ chan' = chan
         /\ Buffered' = Buffered
         /\ closed' /\ (bounded' <=> bounded)
         /\ send_cond' = send_cond /\ recv_cond' = recv_cond
         /\ pc' = [pc EXCEPT ![t] = "c_done"]
         /\ sent' = sent /\ received' = received
         /\ recvd_at_close' = recvd_at_close]_vars

\* Two threads have closed a channel that held two items, and a recv after
\* the close has returned the first of them; the other is still there.
C15_Witness ==
  /\ closed
  /\ count = 1
  /\ Len(sent) = 2
  /\ recvd_at_close = 0
  /\ \E t1, t2, t3 \in Threads :
       /\ t1 # t2
       /\ pc[t1] = "c_done"
       /\ pc[t2] = "c_done"
       /\ pc[t3] = "r_done" /\ ret[t3] /\ out[t3] = sent[1]

C17_ClosedFailureFrame ==
  [][\A t \in Threads :
       /\ (Deciding(t) /\ pc'[t] = "s_done" /\ ~ret'[t] /\ ~malloc_failed') =>
            /\ closed
            /\ <<count, recv_ptr, send_ptr, capacity, queue>>' =
                 <<count, recv_ptr, send_ptr, capacity, queue>>
            /\ Buffered' = Buffered
       /\ (Leaves(t, "r_crit") /\ pc'[t] = "r_done" /\ ~ret'[t]) =>
            /\ closed
            /\ <<count, recv_ptr, send_ptr, capacity, queue>>' =
                 <<count, recv_ptr, send_ptr, capacity, queue>>
            /\ Buffered' = Buffered
            /\ out'[t] = out[t]]_vars

\* C17: a channel_send or channel_recv that returns false because of the
\* closed state leaves count, the cursors, capacity and the buffered items
\* unchanged, a failed channel_recv does not write the caller's *value, and
\* no operation of the channel ever terminates the process. channel_create
\* is such an operation, and it ends the process when its malloc fails.
C17_FailedCalls ==
  /\ C17_ClosedFailureFrame
  /\ [](handle # "none")

\* Thread t is between a pthread_mutex_lock, or the return of a
\* pthread_cond_wait, and the unlock or wait that follows: where the code
\* reads and writes the fields of the channel.
InCritical(t) == pc[t] \in {"s_crit", "s_loop", "r_crit", "c_crit"}

\* C18: mutual exclusion. A thread is at the statements of channel_send,
\* channel_recv and channel_close that read or write the channel exactly
\* while it holds the mutex; at most one thread is there at a time; every
\* change of a field of the channel or of its buffer is made by a step of the
\* thread that holds the mutex; and a thread that does not hold the mutex
\* moves only by taking the free mutex or by being woken from its wait.
C18_MutualExclusion ==
  /\ [](/\ \A t \in Threads : InCritical(t) <=> mu = t
        /\ Cardinality({t \in Threads : InCritical(t)}) <= 1)
  /\ [][/\ chan' # chan =>
             \E t \in Threads : mu = t /\ InCritical(t) /\ pc'[t] # pc[t]
        /\ \A t \in Threads :
             (pc'[t] # pc[t] /\ mu # t) =>
               \/ pc[t] \in NotInCall /\ mu = NoThread /\ mu' = t
               \/ pc[t] \in {"s_wake", "r_wake"} /\ mu = NoThread /\ mu' = t
               \/ pc[t] \in {"s_wait", "r_wait"}
                    /\ pc'[t] \in {"s_wake", "r_wake"}]_vars

\* A sender holds the mutex in its critical section while a receiver that a
\* signal has woken is kept from going on: it needs the mutex first.
C18_Witness ==
  \E t1, t2 \in Threads :
    /\ mu = t1
    /\ pc[t1] = "s_crit"
    /\ pc[t2] = "r_wake"
    /\ count > 0

\* C19: producer/consumer runs terminate. With producers that each send
\* ItemsEach items on a bounded channel, one consumer that receives until it
\* has them all or a recv fails, and a main thread that closes the channel
\* once every producer has returned, under fair scheduling every thread
\* returns, and the consumer returns with as many items as were sent: all.
C19_ProducerConsumer ==
  /\ <>(\A t \in AllThreads : pc[t] = "exit")
  /\ [](pc[Consumer] = "exit" =>
          /\ progress[Consumer] = Len(sent)
          /\ progress[Consumer] = Expected
          /\ Len(received) = Expected)

\* Every thread has returned, the consumer with every item, after runs in
\* which a producer had to wait for room.
C19_Witness ==
  /\ \A t \in AllThreads : pc[t] = "exit"
  /\ progress[Consumer] = Expected
  /\ \E p \in Producers : waited[p]

\* The round of the main thread's current or last call in the fill-and-drain
\* test, from 0, and the index of that call in its loop, from 0.
WrapRound == (progress[Main] - 1) \div (2 * capacity)

WrapIndex == ((progress[Main] - 1) % (2 * capacity)) % capacity

\* C20: wraparound. On a bounded channel of capacity k that starts empty,
\* rounds of k sends followed by k recvs made by one thread run to the end:
\* no call blocks, no call fails, and the i-th recv of a round returns the
\* item the i-th send of that round sent, round after round, while both
\* cursors go around the end of the buffer.
C20_Wraparound ==
  /\ [](/\ pc[Main] \notin {"s_wait", "s_wake", "r_wait", "r_wake"}
        /\ pc[Main] = "s_done" =>
             /\ ret[Main]
             /\ sent[Len(sent)] = WrapRound * capacity + WrapIndex + 1
        /\ pc[Main] = "r_done" =>
             /\ ret[Main]
             /\ out[Main] = WrapRound * capacity + WrapIndex + 1
             /\ out[Main] = sent[Len(sent) - capacity + WrapIndex + 1])
  /\ <>(/\ progress[Main] = 2 * capacity * MaxRounds
        /\ pc[Main] = "r_done"
        /\ Len(received) = capacity * MaxRounds)

\* The second round has ended on a channel of several slots: the last item of
\* that round has come back and both cursors are at slot 0 again, having
\* gone around the buffer twice.
C20_Witness ==
  /\ capacity > 1
  /\ progress[Main] = 4 * capacity
  /\ pc[Main] = "r_done"
  /\ out[Main] = 2 * capacity
  /\ recv_ptr = 0
  /\ send_ptr = 0

\* C21: channel_send on an unbounded channel never waits on a condition
\* variable. Holding the mutex it returns by its own next step, whatever the
\* other threads do: nobody is ever in the wait set of send_cond or about to
\* leave a wait in channel_send, and a send that finds count = capacity
\* doubles the buffer (or fails for lack of memory) instead of blocking.
C21_UnboundedNeverWaits ==
  /\ [](~bounded =>
          /\ send_cond = {}
          /\ \A t \in Threads : pc[t] \notin {"s_wait", "s_wake", "s_loop"})
  /\ [][~bounded =>
          \A t \in Threads :
            Leaves(t, "s_crit") =>
              /\ pc'[t] = "s_done"
              /\ ~waited'[t]
              /\ send_cond' = {}
              /\ (~closed /\ count = capacity) =>
                   \/ ret'[t] /\ capacity' = 2 * capacity
                   \/ ~ret'[t] /\ malloc_failed']_vars

\* The 17th send on an unbounded channel nobody received from has returned
\* true without having waited, and the buffer has 32 slots.
C21_Witness ==
  /\ ~bounded
  /\ Len(received) = 0
  /\ count = DefaultCapacity + 1
  /\ capacity = 2 * DefaultCapacity
  /\ \E t \in Threads : pc[t] = "s_done" /\ ret[t] /\ ~waited[t]

\* C22: the initial state. The channel that channel_create(item_size,
\* capacity) returns is open and empty with both cursors at 0; with
\* capacity > 0 it is bounded with exactly that capacity, with capacity = 0
\* it is unbounded with 16 slots; so the first channel_send on it, unless the
\* channel was closed before, returns true without waiting, and the first
\* channel_recv that returns an item returns the first item sent.
C22_InitialState ==
  /\ []((handle = "ch" /\ ncalls = 0) =>
          /\ ~closed
          /\ count = 0 /\ recv_ptr = 0 /\ send_ptr = 0
          /\ item_size = ItemSize
          /\ bounded <=> cap_arg > 0
          /\ capacity = (IF cap_arg > 0 THEN cap_arg ELSE DefaultCapacity)
          /\ Buffered = <<>>)
  /\ [](Len(received) > 0 => received[1] = sent[1])
  /\ [][\A t \in Threads :
          /\ (Leaves(t, "s_crit") /\ arg[t] = 1 /\ ~closed) =>
               /\ pc'[t] = "s_done"
               /\ ret'[t]
               /\ ~waited'[t]
               /\ Buffered' = <<arg[t]>>
          /\ (Leaves(t, "r_crit") /\ received = <<>> /\ count > 0) =>
               /\ ret'[t]
               /\ out'[t] = sent[1]]_vars

\* On a channel created with capacity 0 the first recv has returned the first
\* item sent, after the first send had returned true.
C22_Witness ==
  /\ cap_arg = 0
  /\ ~bounded
  /\ capacity = DefaultCapacity
  /\ Len(received) = 1
  /\ \E t \in Threads : pc[t] = "r_done" /\ ret[t] /\ out[t] = sent[1]

\* The items sent and not received yet, oldest first.
Unread == SubSeq(sent, Len(received) + 1, Len(sent))

\* Thread t's channel_send returns true in this step.
SendSucceeds(t) == Deciding(t) /\ pc'[t] = "s_done" /\ ret'[t]

\* Thread t's channel_recv returns true in this step.
RecvSucceeds(t) == pc[t] = "r_crit" /\ pc'[t] = "r_done" /\ ret'[t]

\* The part of C23 that is about states: both cursors are in [0, capacity),
\* send_ptr = (recv_ptr + count) mod capacity, and the count slots from
\* recv_ptr on, around the end of the buffer, hold the unread items in the
\* order they were sent.
RingInvariant ==
  /\ recv_ptr \in 0..(capacity - 1)
  /\ send_ptr \in 0..(capacity - 1)
  /\ send_ptr = (recv_ptr + count) % capacity
  /\ Buffered = Unread

\* C23 as the claim states it: the ring invariant, every successful send
\* advances only send_ptr, by one mod capacity (the capacity before or after
\* the send), and every successful recv advances only recv_ptr, by one mod
\* capacity. A send that makes the buffer grow does not: it moves the items
\* to the start of the new buffer.
C23_RingAsClaimed ==
  /\ []RingInvariant
  /\ [][\A t \in Threads :
          /\ SendSucceeds(t) =>
               /\ recv_ptr' = recv_ptr
               /\ \/ send_ptr' = (send_ptr + 1) % capacity
                  \/ send_ptr' = (send_ptr + 1) % capacity'
          /\ RecvSucceeds(t) =>
               /\ send_ptr' = send_ptr
               /\ recv_ptr' = (recv_ptr + 1) % capacity]_vars

\* C23, amended: the ring invariant; every successful send that does not
\* make the buffer grow advances only send_ptr, by one mod capacity; a send
\* that makes the buffer grow leaves recv_ptr = 0 and send_ptr = count + 1,
\* the count before the send, in the doubled buffer; every successful recv
\* advances only recv_ptr, by one mod capacity.
C23_RingInvariant ==
  /\ []RingInvariant
  /\ [][\A t \in Threads :
          /\ (SendSucceeds(t) /\ capacity' = capacity) =>
               /\ recv_ptr' = recv_ptr
               /\ send_ptr' = (send_ptr + 1) % capacity
          /\ (SendSucceeds(t) /\ capacity' # capacity) =>
               /\ recv_ptr' = 0
               /\ send_ptr' = count + 1
               /\ capacity' = 2 * capacity
          /\ RecvSucceeds(t) =>
               /\ send_ptr' = send_ptr
               /\ capacity' = capacity
               /\ recv_ptr' = (recv_ptr + 1) % capacity]_vars

\* The buffer grew with 16 unread items, and a recv and a send followed: 17
\* items from slot 1 to slot 17 of 32.
C23_Witness ==
  /\ ~bounded
  /\ capacity = 2 * DefaultCapacity
  /\ recv_ptr = 1
  /\ send_ptr = DefaultCapacity + 2
  /\ count = DefaultCapacity + 1

\* Thread t's channel_send finds the unbounded channel open with no room left
\* and gets the memory to double the buffer in this step.
Grows(t) ==
  /\ Leaves(t, "s_crit")
  /\ ~bounded
  /\ ~closed
  /\ capacity <= count
  /\ ret'[t]

\* C24: growth relocation. When a send on an unbounded channel makes the
\* buffer grow from capacity c with n unread items, wherever the cursors are,
\* the relocated buffer has 2c slots whose slots 0..n-1 hold the n unread
\* items in the order they had in the old ring, read from recv_ptr around the
\* end; the send leaves capacity = 2c and recv_ptr = 0, and it stores its item
\* in slot n and leaves send_ptr = n + 1: send_ptr was n after relocation.
C24_GrowthRelocation ==
  /\ []((~bounded /\ capacity <= count) =>
          LET relocated == GrownQueue(queue, capacity, count, recv_ptr, send_ptr)
          IN /\ DOMAIN relocated = 0..(2 * capacity - 1)
             /\ \A i \in 0..(count - 1) : relocated[i] = Buffered[i + 1])
  /\ [][\A t \in Threads :
          Grows(t) =>
            /\ capacity' = 2 * capacity
            /\ recv_ptr' = 0
            /\ send_ptr' = count + 1
            /\ count' = count + 1
            /\ DOMAIN queue' = 0..(2 * capacity - 1)
            /\ \A i \in 0..(count - 1) : queue'[i] = Buffered[i + 1]
            /\ queue'[count] = arg[t]]_vars

\* The buffer has just grown after one item was received: the 16 items that
\* were in slots 1..15 and 0 are in slots 0..15, the new one is in slot 16.
C24_Witness ==
  /\ ~bounded
  /\ capacity = 2 * DefaultCapacity
  /\ recv_ptr = 0
  /\ send_ptr = DefaultCapacity + 1
  /\ Len(received) = 1
  /\ \A i \in 0..DefaultCapacity : queue[i] = sent[i + 2]
  /\ \E t \in Threads : pc[t] = "s_done" /\ ret[t]

\* c is 16 * 2^j for some j >= 0.
RECURSIVE DefaultDoubled(_)
DefaultDoubled(c) ==
  \/ c = DefaultCapacity
  \/ c > DefaultCapacity /\ c % 2 = 0 /\ DefaultDoubled(c \div 2)

\* C25: capacity evolution. A bounded channel's capacity is the one it was
\* created with, always; an unbounded channel's capacity is 16 * 2^j for some
\* j >= 0; a step changes capacity only by doubling it, only on an unbounded
\* channel, and only as part of a channel_send that finds the channel open
\* with count = capacity and returns true: not a recv, a close or a failed
\* send.
C25_CapacityEvolution ==
  /\ [](bounded => capacity = cap_arg)
  /\ [](~bounded => DefaultDoubled(capacity))
  /\ [][capacity' # capacity =>
          /\ ~bounded
          /\ capacity' = 2 * capacity
          /\ count = capacity
          /\ \E t \in Threads : Grows(t) /\ pc'[t] = "s_done"]_vars

\* The buffer has grown to 32 slots and has kept them over a close and a
\* recv that followed.
C25_Witness ==
  /\ ~bounded
  /\ capacity = 2 * DefaultCapacity
  /\ closed
  /\ Len(received) = 1
  /\ \E t \in Threads : pc[t] = "r_done" /\ ret[t]

\* C26: wait re-check. A thread that pthread_cond_wait has let go, for
\* whatever reason, touches nothing until it holds the mutex again, and then
\* tests its condition again: a sender that finds the open channel still full
\* waits again and enqueues nothing, a receiver that finds it still empty
\* waits again and takes nothing. So no step enqueues an item on a bounded
\* channel with count = capacity and no step dequeues one with count = 0.
C26_WaitRecheck ==
  [][/\ (bounded /\ sent' # sent) => count < capacity
     /\ received' # received => count > 0
     /\ \A t \in Threads :
          /\ (pc[t] \in {"s_wake", "r_wake"} /\ pc'[t] # pc[t]) =>
               /\ mu = NoThread
               /\ mu' = t
               /\ pc'[t] = (IF pc[t] = "s_wake" THEN "s_loop" ELSE "r_crit")
               /\ chan' = chan
          /\ (Leaves(t, "s_loop") /\ count >= capacity /\ ~closed) =>
               /\ pc'[t] = "s_wait"
               /\ t \in send_cond'
               /\ chan' = chan
               /\ sent' = sent
          /\ (Leaves(t, "r_crit") /\ waited[t] /\ count = 0 /\ ~closed) =>
               /\ pc'[t] = "r_wait"
               /\ t \in recv_cond'
               /\ chan' = chan
               /\ received' = received]_vars

\* A woken sender holds the mutex again and finds the channel full: the slot
\* a recv freed has been filled by another sender.
C26_Witness ==
  /\ bounded
  /\ ~closed
  /\ count = capacity
  /\ Len(received) >= 1
  /\ Len(sent) = Len(received) + capacity
  /\ \E t \in Threads : pc[t] = "s_loop" /\ mu = t /\ waited[t]

\* The threads that this step takes out of a wait in channel_send, and out of
\* a wait in channel_recv.
WokenSenders == {u \in Threads : pc[u] = "s_wait" /\ pc'[u] # "s_wait"}
WokenReceivers == {u \in Threads : pc[u] = "r_wait" /\ pc'[u] # "r_wait"}

\* C27: separate wait conditions. A successful channel_send takes at most one
\* thread out of a wait, and only out of a wait in channel_recv: the threads
\* waiting in channel_send stay where they are. A successful channel_recv
\* takes at most one thread out of a wait, and only out of a wait in
\* channel_send. A step that takes more than one thread out of a wait, or
\* threads out of both waits, is a channel_close, and a channel_close leaves
\* nobody waiting.
C27_SeparateConditions ==
  [][/\ \A t \in Threads :
          /\ SendSucceeds(t) =>
               /\ WokenSenders = {}
               /\ send_cond' = send_cond
               /\ Cardinality(WokenReceivers) <= 1
               /\ WokenReceivers = recv_cond \ recv_cond'
               /\ \A u \in WokenReceivers : pc'[u] = "r_wake"
          /\ RecvSucceeds(t) =>
               /\ WokenReceivers = {}
               /\ recv_cond' = recv_cond
               /\ Cardinality(WokenSenders) <= 1
               /\ WokenSenders = send_cond \ send_cond'
               /\ \A u \in WokenSenders : pc'[u] = "s_wake"
          /\ Leaves(t, "c_crit") =>
               /\ send_cond' = {}
               /\ recv_cond' = {}
               /\ \A u \in Threads : pc'[u] \notin {"s_wait", "r_wait"}
     /\ (\/ Cardinality(WokenSenders \cup WokenReceivers) > 1
         \/ WokenSenders # {} /\ WokenReceivers # {}) =>
          \E c \in Threads : Leaves(c, "c_crit")]_vars

\* A recv has just taken an item while two senders waited: one of them has
\* been woken, the other still waits.
C27_Witness ==
  /\ bounded
  /\ ~closed
  /\ count = capacity - 1
  /\ Len(received) = 1
  /\ \E t, u, v \in Threads :
       /\ pc[t] = "r_done" /\ ret[t]
       /\ pc[u] = "s_wake"
       /\ pc[v] = "s_wait" /\ v \in send_cond

\* The threads out of a wait or new in channel_recv that have yet to look at
\* count, and the same for channel_send.
Takers == {t \in Threads : pc[t] \in {"r_wake", "r_crit"}}
Fillers == {t \in Threads : pc[t] \in {"s_wake", "s_loop", "s_crit"}}

\* Every thread that is in a call is blocked in pthread_cond_wait.
AllWaiting ==
  /\ send_cond \cup recv_cond # {}
  /\ \A t \in Threads : pc[t] \in {"idle", "s_done", "r_done", "c_done"}
                        \/ t \in send_cond \cup recv_cond

\* C28: no lost wakeup. While a thread waits in channel_recv, every unread
\* item has a thread that is about to look for it: there are at least count
\* threads woken from that wait or running channel_recv. While a thread
\* waits in channel_send on a bounded channel, every free slot has a thread
\* woken from that wait or running channel_send. So a receiver never stays
\* waiting over an item, nor a sender over a free slot, with nobody on the
\* way to take it, and there is no state where all threads in a call wait
\* and one of them could go on.
C28_NoLostWakeup ==
  /\ recv_cond # {} => count <= Cardinality(Takers)
  /\ send_cond # {} => capacity - count <= Cardinality(Fillers)
  /\ AllWaiting => /\ recv_cond # {} => count = 0
                   /\ send_cond # {} => count = capacity

\* One receiver still waits while an item is unread: another receiver has
\* been woken for it by the send.
C28_Witness ==
  /\ ~closed
  /\ count = 1
  /\ Len(sent) = 1
  /\ \E t, u, v \in Threads :
       /\ pc[t] = "r_wait" /\ t \in recv_cond
       /\ pc[u] = "r_wake"
       /\ pc[v] = "s_done" /\ ret[v]

\* The test of the growth branch holds: no room left on an unbounded channel.
GrowthTriggered == ~bounded /\ capacity <= count

\* C29: whenever growth is triggered the buffer is exactly full, count =
\* capacity > 0, and so recv_ptr = send_ptr: the test recv_ptr < send_ptr of
\* the one-piece copy is false. The two pieces copied instead, capacity -
\* recv_ptr items from recv_ptr on and then send_ptr items from slot 0, are
\* count items together and are the unread items in the order they were
\* sent; with recv_ptr = send_ptr = 0 the first piece is the whole buffer and
\* the second is empty. The send that grows leaves them in slots 0..count-1.
C29_GrowthOnlyWhenFull ==
  /\ [](GrowthTriggered =>
          LET start_items == capacity - recv_ptr
          IN /\ count = capacity
             /\ capacity > 0
             /\ recv_ptr = send_ptr
             /\ ~(recv_ptr < send_ptr)
             /\ start_items + send_ptr = count
             /\ (recv_ptr = 0) => (start_items = capacity /\ send_ptr = 0)
             /\ [i \in 1..count |->
                   IF i <= start_items THEN queue[recv_ptr + i - 1]
                   ELSE queue[i - start_items - 1]] = Unread)
  /\ [][\A t \in Threads :
          Grows(t) =>
            /\ recv_ptr = send_ptr
            /\ [i \in 1..count |-> queue'[i - 1]] = Unread
            /\ Unread' = Append(Unread, arg[t])]_vars

\* The buffer grew when it was full for the first time, both cursors at slot
\* 0: its 16 items, copied as one first piece, and the 17th are in place.
C29_Witness ==
  /\ ~bounded
  /\ capacity = 2 * DefaultCapacity
  /\ received = <<>>
  /\ recv_ptr = 0
  /\ send_ptr = DefaultCapacity + 1
  /\ [i \in 1..(DefaultCapacity + 1) |-> queue[i - 1]] = sent

====
